---- MODULE Spec2Model ----
(***************************************************************************)
(* The account store of src/account_manager.py (class AccountManager): the *)
(* tables accounts and task_history of the SQLite database, and one action *)
(* per public method.  Time is counted in whole hours since the store was  *)
(* opened; CURRENT_TIMESTAMP and datetime('now') read the clock `now`.     *)
(***************************************************************************)
EXTENDS Integers, Sequences, FiniteSets, TLC

VARIABLES accounts,      \* rows of table accounts
          task_history,  \* rows of table task_history
          acc_seq,       \* sqlite_sequence entry of accounts (AUTOINCREMENT)
          hist_seq,      \* sqlite_sequence entry of task_history
          now,           \* the database clock, in hours
          lastOp,        \* the last call made on the store and its outcome
          credited,      \* per email: sum of the deltas and time of the last
                         \* points update applied to the row that exists now
          disk,          \* what the last successful commit wrote: the tables
                         \* as a second connection reads them
          flow           \* the session of main.py / task_bot.py that is
                         \* running or has just ended, and its stores

store == <<accounts, task_history, acc_seq, hist_seq, now, lastOp, credited,
           disk>>

vars == <<accounts, task_history, acc_seq, hist_seq, now, lastOp, credited,
          disk, flow>>

----------------------------------------------------------------------------
(* Bounds of the exploration *)

MaxAccountIds == 2      \* rows ever inserted into accounts
MaxHistoryIds == 1      \* rows ever inserted into task_history
MaxNow        == 21     \* hours the clock may reach
MaxPoints     == 15     \* points kept at or below this
MaxDebt       == 0      \* points kept at or above minus this

(* Inputs the callers draw from *)

Emails            == {"a@x.io", "A@x.io"}
TaskTypes         == {"checkin"}
XpVals            == {10}
Deltas            == {-5, 5, 10}
DetailsVals       == {"none", "empty"}
TickSteps         == {10, 21}
QueryHours        == {0, 10, 20}

----------------------------------------------------------------------------
(* SQL NULL / Python None: a nullable value is <<>> or <<v>> *)

None      == << >>
Some(v)   == <<v>>
IsNone(x) == x = << >>
Val(x)    == x[1]
Opt(S)    == {None} \cup {Some(v) : v \in S}

(* sqlite3 stores a Python bool as the integer 1 or 0 and None as NULL;    *)
(* the verified column has no NOT NULL constraint                          *)
AdaptBool(b) == IF IsNone(b) THEN None ELSE Some(IF Val(b) THEN 1 ELSE 0)

(* json.dumps(details) if details else None: None and {} are both falsy *)
JsonDumps(d) == "{\"source\": \"bot\"}"
DetailsColumn(d) == IF d = "dict" THEN Some(JsonDumps(d)) ELSE None

(* The argument lists save_account and other callers pass to add_account:  *)
(* password, referral_code, verified, verification_code, cookies           *)
AccountArgs ==
    { [password |-> Some("pw1"), referral_code |-> "REF1",
       verified |-> Some(FALSE), verification_code |-> None,
       cookies |-> None],
      [password |-> Some("pw2"), referral_code |-> "REF2",
       verified |-> Some(TRUE), verification_code |-> Some("123456"),
       cookies |-> Some("sid=1")],
      [password |-> None, referral_code |-> "REF1",
       verified |-> Some(FALSE), verification_code |-> None,
       cookies |-> None] }

(* Schema defaults of table accounts *)
DefaultPoints      == 0
DefaultStatus      == "active"
DefaultLastTaskRun == None
DefaultNotes       == None

----------------------------------------------------------------------------
(* Statements *)

RowsOf(tbl, email) == {r \in tbl : r.email = email}

(* INSERT OR REPLACE INTO accounts (email, password, referral_code,        *)
(* verified, verification_code, cookies): the UNIQUE(email) conflict       *)
(* deletes the old row, the new row takes the next AUTOINCREMENT id and    *)
(* the schema default of every column that is not listed.                  *)
NewAccountRow(id, email, password, referral_code, verified, verification_code, cookies, clock) ==
    [id                |-> id,
     email             |-> email,
     password          |-> Val(password),
     referral_code     |-> referral_code,
     created_at        |-> clock,
     verified          |-> AdaptBool(verified),
     verification_code |-> verification_code,
     points            |-> DefaultPoints,
     last_task_run     |-> DefaultLastTaskRun,
     status            |-> DefaultStatus,
     cookies           |-> cookies,
     notes             |-> DefaultNotes]

(* INSERT ... ON CONFLICT(email) DO UPDATE of the listed columns only *)
InsertOrMerge(tbl, row) ==
    {r \in tbl : r.email # row.email} \cup
    (IF RowsOf(tbl, row.email) = {} THEN {row}
     ELSE {[row EXCEPT !.points = r.points,
                       !.last_task_run = r.last_task_run,
                       !.cookies = IF IsNone(row.cookies) THEN r.cookies
                                   ELSE row.cookies]
              : r \in RowsOf(tbl, row.email)})

(* INSERT without OR REPLACE on a table without the UNIQUE constraint *)
InsertPlain(tbl, row) == tbl \cup {row}

InsertOrReplace(tbl, row) ==
    {r \in tbl : r.email # row.email} \cup {row}

(* UPDATE accounts SET points = points + ?, last_task_run =                *)
(* CURRENT_TIMESTAMP WHERE email = ?                                       *)
(* SET points = ? : the new value overwrites the total *)
UpdatePointsOverwrite(tbl, email, points_earned, clock) ==
    {IF r.email = email
        THEN [r EXCEPT !.points = points_earned,
                       !.last_task_run = Some(clock)]
        ELSE r : r \in tbl}

(* SET points = points - ? *)
UpdatePointsSubtract(tbl, email, points_earned, clock) ==
    {IF r.email = email
        THEN [r EXCEPT !.points = @ - points_earned,
                       !.last_task_run = Some(clock)]
        ELSE r : r \in tbl}

(* An update that also rewrites created_at *)
UpdatePointsTouch(tbl, email, points_earned, clock) ==
    {IF r.email = email
        THEN [r EXCEPT !.points = @ + points_earned,
                       !.last_task_run = Some(clock),
                       !.created_at = clock]
        ELSE r : r \in tbl}

(* An update that creates the row it does not find *)
UpdateOrCreate(tbl, email, points_earned, clock) ==
    IF RowsOf(tbl, email) = {}
       THEN tbl \cup {[NewAccountRow(0, email, Some(""), "", Some(FALSE), None,
                                      None, clock)
                          EXCEPT !.points = points_earned,
                                 !.last_task_run = Some(clock)]}
       ELSE {IF r.email = email
                THEN [r EXCEPT !.points = @ + points_earned,
                               !.last_task_run = Some(clock)]
                ELSE r : r \in tbl}

(* SET points = points + ? alone: last_task_run is not stamped *)
UpdatePointsUnstamped(tbl, email, points_earned, clock) ==
    {IF r.email = email
        THEN [r EXCEPT !.points = @ + points_earned]
        ELSE r : r \in tbl}

(* UPDATE accounts SET points = points + ?, last_task_run = now *)
UpdatePoints(tbl, email, points_earned, clock) ==
    {IF r.email = email
        THEN [r EXCEPT !.points = @ + points_earned,
                       !.last_task_run = Some(clock)]
        ELSE r : r \in tbl}

(* UPDATE accounts SET status = 'deleted' in place of the DELETE *)
DeactivateAccountRows(tbl, email) ==
    {IF r.email = email THEN [r EXCEPT !.status = "deleted"] ELSE r :
        r \in tbl}

(* DELETE FROM accounts without its WHERE clause *)
DeleteEveryAccount(tbl, email) == {}

(* DELETE FROM accounts WHERE email = ? *)
DeleteAccountRows(tbl, email) == {r \in tbl : r.email # email}

(* The second DELETE left out *)
KeepHistoryRows(tbl, email) == tbl

(* DELETE FROM task_history without its WHERE clause *)
DeleteAllHistory(tbl, email) == {}

(* DELETE FROM task_history WHERE email = ? *)
DeleteHistoryRows(tbl, email) == {h \in tbl : h.email # email}

NewHistoryRow(id, email, task_type, xp_earned, details, clock) ==
    [id           |-> id,
     email        |-> email,
     task_type    |-> task_type,
     xp_earned    |-> xp_earned,
     completed_at |-> clock,
     details      |-> DetailsColumn(details)]

----------------------------------------------------------------------------
(* Queries *)

MinId(rows) == CHOOSE r \in rows : \A q \in rows : r.id <= q.id

(* SELECT * FROM accounts; fetchone(): the WHERE clause left out *)
get_first_account(email) ==
    IF accounts = {} THEN None ELSE Some(MinId(accounts))

(* SELECT * FROM accounts WHERE email = ?; fetchone() *)
get_account_by_email(email) ==
    IF RowsOf(accounts, email) = {} THEN None
    ELSE Some(MinId(RowsOf(accounts, email)))

(* <= in place of < *)
NotNewerThan(last_task_run, clock, hours_since) ==
    Val(last_task_run) <= clock - hours_since

(* datetime(last_task_run) < datetime('now', '-h hours') *)
OlderThan(last_task_run, clock, hours_since) ==
    Val(last_task_run) < clock - hours_since

get_accounts_needing_tasks(hours_since) ==
    {r \in accounts :
        /\ r.verified = Some(1)
        /\ r.status = "active"
        /\ \/ IsNone(r.last_task_run)
           \/ OlderThan(r.last_task_run, now, hours_since)}

----------------------------------------------------------------------------
(* State after AccountManager() on a fresh database file *)

NoCredit == [sum |-> 0, last |-> None]

(* No session of the bot has run yet *)
NoSession ==
    [kind |-> "none", pc |-> "idle", todo |-> << >>, left |-> 0,
     opened |-> 0, closed |-> 0, processed |-> {}, successes |-> 0,
     seq0 |-> 0, hist0 |-> 0, result |-> None]

(* What the connection sees, its own uncommitted changes included *)
View ==
    [accounts |-> accounts, task_history |-> task_history,
     acc_seq |-> acc_seq, hist_seq |-> hist_seq, credited |-> credited]

Init ==
    /\ accounts = {}
    /\ task_history = {}
    /\ acc_seq = 0
    /\ hist_seq = 0
    /\ now = 0
    /\ lastOp = [op |-> "init", email |-> "", ret |-> "ok",
                 existed |-> FALSE]
    /\ credited = [e \in Emails |-> NoCredit]
    /\ disk = [accounts |-> {}, task_history |-> {}, acc_seq |-> 0,
               hist_seq |-> 0, credited |-> [e \in Emails |-> NoCredit]]
    /\ flow = NoSession

(* add_account: a None password violates NOT NULL, which sqlite3 raises as *)
(* IntegrityError; the handler returns False and nothing is written.       *)
(* Otherwise the INSERT runs and conn.commit() writes the transaction.     *)
add_account(email, password, referral_code, verified, verification_code, cookies) ==
    /\ acc_seq < MaxAccountIds
    /\ IF IsNone(password)
          THEN /\ UNCHANGED <<accounts, acc_seq, credited>>
               /\ lastOp' = [op |-> "add_account", email |-> email,
                             ret |-> "False",
                             existed |-> RowsOf(accounts, email) # {},
                             password |-> password,
                             referral_code |-> referral_code,
                             verified |-> verified,
                             verification_code |-> verification_code,
                             cookies |-> cookies]
          ELSE /\ accounts' = InsertOrReplace(accounts,
                       NewAccountRow(acc_seq + 1, email, password,
                                     referral_code, verified,
                                     verification_code, cookies, now))
               /\ acc_seq' = acc_seq + 1
               /\ credited' = [credited EXCEPT ![email] = NoCredit]
               /\ lastOp' = [op |-> "add_account", email |-> email,
                             ret |-> "True",
                             existed |-> RowsOf(accounts, email) # {},
                             password |-> password,
                             referral_code |-> referral_code,
                             verified |-> verified,
                             verification_code |-> verification_code,
                             cookies |-> cookies]
    /\ UNCHANGED <<task_history, hist_seq, now>>
    /\ disk' = IF IsNone(password) THEN disk ELSE View'

update_account_points(email, points_earned) ==
    /\ \A r \in RowsOf(accounts, email) :
          /\ r.points + points_earned <= MaxPoints
          /\ r.points + points_earned >= -MaxDebt
    /\ accounts' = UpdatePoints(accounts, email, points_earned, now)
    /\ credited' = IF RowsOf(accounts, email) = {} THEN credited
                   ELSE [credited EXCEPT ![email] =
                            [sum |-> @.sum + points_earned,
                             last |-> Some(now)]]
    /\ lastOp' = [op |-> "update_account_points", email |-> email,
                  ret |-> "ok", existed |-> RowsOf(accounts, email) # {}]
    /\ UNCHANGED <<task_history, acc_seq, hist_seq, now>>
    /\ disk' = View'

(* the INSERT followed by UPDATE accounts SET last_task_run = now for the  *)
(* same email                                                              *)
record_task_completion_stamping(email, task_type, xp_earned, details) ==
    /\ hist_seq < MaxHistoryIds
    /\ task_history' = task_history \cup
           {NewHistoryRow(hist_seq + 1, email, task_type, xp_earned,
                          details, now)}
    /\ hist_seq' = hist_seq + 1
    /\ accounts' = {IF r.email = email
                       THEN [r EXCEPT !.last_task_run = Some(now)]
                       ELSE r : r \in accounts}
    /\ lastOp' = [op |-> "record_task_completion", email |-> email,
                  ret |-> "ok", existed |-> RowsOf(accounts, email) # {}]
    /\ UNCHANGED <<acc_seq, now, credited>>
    /\ disk' = View'

(* INSERT INTO task_history (email, task_type, xp_earned, details); commit *)
record_task_completion(email, task_type, xp_earned, details) ==
    /\ hist_seq < MaxHistoryIds
    /\ task_history' = task_history \cup
           {NewHistoryRow(hist_seq + 1, email, task_type, xp_earned,
                          details, now)}
    /\ hist_seq' = hist_seq + 1
    /\ lastOp' = [op |-> "record_task_completion", email |-> email,
                  ret |-> "ok", existed |-> RowsOf(accounts, email) # {}]
    /\ UNCHANGED <<accounts, acc_seq, now, credited>>
    /\ disk' = View'

delete_account(email) ==
    /\ accounts' = DeleteAccountRows(accounts, email)
    /\ task_history' = DeleteHistoryRows(task_history, email)
    /\ credited' = [credited EXCEPT ![email] = NoCredit]
    /\ lastOp' = [op |-> "delete_account", email |-> email, ret |-> "ok",
                  existed |-> RowsOf(accounts, email) # {},
                  history_removed |->
                      Cardinality(RowsOf(task_history, email))]
    /\ UNCHANGED <<acc_seq, hist_seq, now>>
    /\ disk' = View'

(* Time passes between two calls *)
Tick(d) ==
    /\ now + d <= MaxNow
    /\ now' = now + d
    /\ UNCHANGED <<accounts, task_history, acc_seq, hist_seq, lastOp,
                   credited, disk>>

AddAccount ==
    /\ \E email \in Emails, a \in AccountArgs :
           add_account(email, a.password, a.referral_code, a.verified,
                       a.verification_code, a.cookies)
    /\ UNCHANGED flow

UpdateAccountPoints ==
    /\ \E email \in Emails, points_earned \in Deltas :
           update_account_points(email, points_earned)
    /\ UNCHANGED flow

RecordTaskCompletion ==
    /\ \E email \in Emails, task_type \in TaskTypes, xp_earned \in XpVals,
          details \in DetailsVals :
           record_task_completion(email, task_type, xp_earned, details)
    /\ UNCHANGED flow

DeleteAccount ==
    /\ \E email \in Emails : delete_account(email)
    /\ UNCHANGED flow

ClockTick ==
    /\ \E d \in TickSteps : Tick(d)
    /\ UNCHANGED flow

Next ==
    \/ AddAccount
    \/ UpdateAccountPoints
    \/ RecordTaskCompletion
    \/ DeleteAccount
    \/ ClockTick

Spec == Init /\ [][Next]_vars

(* ---------------------------------------------------------------------- *)
(* add_account when the storage layer raises.  The handler catches every   *)
(* exception, logs it and returns False; it never calls rollback().        *)
(* ---------------------------------------------------------------------- *)

AddAccountResult(email, password, referral_code, verified, verification_code, cookies, ret) ==
    [op |-> "add_account", email |-> email, ret |-> ret,
     existed |-> RowsOf(accounts, email) # {},
     password |-> password, referral_code |-> referral_code,
     verified |-> verified, verification_code |-> verification_code,
     cookies |-> cookies]

(* cursor.execute raises (disk I/O error, database locked by a writer):    *)
(* the statement has no effect and the except branch returns False.        *)
add_account_execute_fails(email, password, referral_code, verified, verification_code, cookies) ==
    /\ lastOp' = AddAccountResult(email, password, referral_code, verified,
                                  verification_code, cookies, "False")
    /\ UNCHANGED <<accounts, task_history, acc_seq, hist_seq, now, credited,
                   disk>>

(* conn.commit() raises and SQLite keeps the transaction open (database is *)
(* locked by a reader): the INSERT OR REPLACE stays pending on the         *)
(* connection, nothing reaches the file, the except branch returns False.  *)
add_account_commit_pending(email, password, referral_code, verified, verification_code, cookies) ==
    /\ acc_seq < MaxAccountIds
    /\ ~IsNone(password)
    /\ accounts' = InsertOrReplace(accounts,
            NewAccountRow(acc_seq + 1, email, password, referral_code,
                          verified, verification_code, cookies, now))
    /\ acc_seq' = acc_seq + 1
    /\ credited' = [credited EXCEPT ![email] = NoCredit]
    /\ lastOp' = AddAccountResult(email, password, referral_code, verified,
                                  verification_code, cookies, "False")
    /\ UNCHANGED <<task_history, hist_seq, now, disk>>

(* conn.commit() raises and SQLite rolls the transaction back by itself    *)
(* (disk full, I/O error): the connection is back at the last commit.      *)
add_account_commit_rolled_back(email, password, referral_code, verified, verification_code, cookies) ==
    /\ ~IsNone(password)
    /\ accounts' = disk.accounts
    /\ task_history' = disk.task_history
    /\ acc_seq' = disk.acc_seq
    /\ hist_seq' = disk.hist_seq
    /\ credited' = disk.credited
    /\ lastOp' = AddAccountResult(email, password, referral_code, verified,
                                  verification_code, cookies, "False")
    /\ UNCHANGED <<now, disk>>

AddAccountExecuteFails ==
    /\ \E email \in Emails, a \in AccountArgs :
           add_account_execute_fails(email, a.password, a.referral_code,
                                     a.verified, a.verification_code, a.cookies)
    /\ UNCHANGED flow

AddAccountCommitPending ==
    /\ \E email \in Emails, a \in AccountArgs :
           add_account_commit_pending(email, a.password, a.referral_code,
                                      a.verified, a.verification_code, a.cookies)
    /\ UNCHANGED flow

AddAccountCommitRolledBack ==
    /\ \E email \in Emails, a \in AccountArgs :
           add_account_commit_rolled_back(email, a.password, a.referral_code,
                                          a.verified, a.verification_code,
                                          a.cookies)
    /\ UNCHANGED flow

NextFault ==
    \/ AddAccount
    \/ UpdateAccountPoints
    \/ RecordTaskCompletion
    \/ DeleteAccount
    \/ AddAccountExecuteFails
    \/ AddAccountCommitPending
    \/ AddAccountCommitRolledBack

SpecFault == Init /\ [][NextFault]_vars

(* ---------------------------------------------------------------------- *)
(* Listing and the sessions of main.py and task_bot.py that own a store    *)
(* ---------------------------------------------------------------------- *)

MaxBatch == 2               \* largest count passed to create_accounts
DefaultHoursSince == 20     \* hours_since default of get_accounts_needing_tasks

ConfigReferralCode == "REF1"        \* self.referral_code
GeneratedPasswords == {"pw1"}       \* ReferralBot.generate_password()
EnteredCodes == {"123456"}          \* get_verification_code(email)
TotalXp == {d \in Deltas : d > 0}   \* total_xp of a batch that earned points

(* ORDER BY created_at ASC or DESC: every order the sort may return, rows  *)
(* with equal created_at in either order                                   *)
RECURSIVE OrderByCreatedAt(_, _)
OrderByCreatedAt(tbl, desc) ==
    IF tbl = {} THEN {<< >>}
    ELSE LET first == {r \in tbl : \A q \in tbl :
                          IF desc THEN q.created_at <= r.created_at
                                  ELSE r.created_at <= q.created_at}
         IN  UNION {{<<r>> \o rest :
                        rest \in OrderByCreatedAt(tbl \ {r}, desc)} :
                    r \in first}

(* ORDER BY created_at ASC *)
get_all_accounts_oldest_first == OrderByCreatedAt(accounts, FALSE)

(* SELECT * FROM accounts ORDER BY created_at DESC *)
get_all_accounts == OrderByCreatedAt(accounts, TRUE)

(* ReferralBot.create_account: what one signup attempt returns *)
SignupResults ==
    {[success |-> TRUE, how |-> h, email |-> e, password |-> Some(p),
      verified |-> Some(h = "verified"),
      verification_code |-> IF h = "no_code" THEN None ELSE Some(c)] :
        h \in {"verified", "not_verified", "no_code"}, e \in Emails,
        p \in GeneratedPasswords, c \in EnteredCodes}
    \cup
    {[success |-> FALSE, how |-> h, email |-> e, password |-> None,
      verified |-> Some(FALSE), verification_code |-> None] :
        h \in {"register_failed", "raised"}, e \in Emails}

(* the success test left out *)
SaveAlways(result) == TRUE

(* if result.get("success") *)
ShouldSave(result) == result.success

(* save_account: AccountManager() and add_account with the result's fields; *)
(* the manager is never closed                                              *)
save_account(account_data) ==
    add_account(account_data.email, account_data.password,
                ConfigReferralCode, account_data.verified,
                account_data.verification_code, None)

create_accounts_start(count) ==
    /\ flow.pc \in {"idle", "done"}
    /\ flow' = [NoSession EXCEPT !.kind = "create_accounts", !.pc = "loop",
                                 !.left = count, !.seq0 = acc_seq,
                                 !.hist0 = hist_seq]
    /\ UNCHANGED store

(* one pass of the for loop: create_account, then save_account on success *)
create_accounts_step(result) ==
    /\ flow.kind = "create_accounts"
    /\ flow.pc = "loop"
    /\ flow.left > 0
    /\ IF ShouldSave(result)
          THEN save_account(result)
          ELSE UNCHANGED store
    /\ flow' = [flow EXCEPT
                  !.left = @ - 1,
                  !.result = Some(result),
                  !.successes = IF result.success THEN @ + 1 ELSE @,
                  !.opened = IF ShouldSave(result) THEN @ + 1 ELSE @]

(* generate_report and return *)
create_accounts_finish ==
    /\ flow.kind = "create_accounts"
    /\ flow.pc = "loop"
    /\ flow.left = 0
    /\ flow' = [flow EXCEPT !.pc = "done"]
    /\ UNCHANGED store

(* run_daily_tasks up to the loop: AccountManager(), get_all_accounts(),   *)
(* and the return without close() when the list is empty                   *)
run_daily_tasks_start(listing) ==
    /\ flow.pc \in {"idle", "done"}
    /\ flow' = [NoSession EXCEPT
                  !.kind = "run_daily_tasks",
                  !.pc = IF listing = << >> THEN "done" ELSE "loop",
                  !.todo = listing,
                  !.opened = 1,
                  !.seq0 = acc_seq,
                  !.hist0 = hist_seq]
    /\ UNCHANGED store

(* what the session notes about the account it runs the tasks for *)
Processed(account, credit) ==
    [email |-> account.email,
     verified |-> account.verified,
     status |-> account.status,
     due |-> account \in get_accounts_needing_tasks(DefaultHoursSince),
     credit |-> credit]

(* one pass of the loop: complete_all_tasks(email, password), then         *)
(* update_account_points when the result reports success                   *)
run_daily_tasks_step(success, total_xp) ==
    /\ flow.kind = "run_daily_tasks"
    /\ flow.pc = "loop"
    /\ flow.todo # << >>
    /\ IF success
          THEN update_account_points(Head(flow.todo).email, total_xp)
          ELSE UNCHANGED store
    /\ flow' = [flow EXCEPT
                  !.todo = Tail(@),
                  !.processed = @ \cup
                      {Processed(Head(flow.todo), success)}]

(* manager.close(), generate_report and return *)
run_daily_tasks_finish ==
    /\ flow.kind = "run_daily_tasks"
    /\ flow.pc = "loop"
    /\ flow.todo = << >>
    /\ flow' = [flow EXCEPT !.closed = @ + 1, !.pc = "done"]
    /\ UNCHANGED store

(* A session that opens one manager, reads, and calls close() as its last  *)
(* statement: an exception raised by a read skips the close()              *)
ReadSession(kind, ok) ==
    [NoSession EXCEPT !.kind = kind, !.pc = "done", !.opened = 1,
                      !.closed = IF ok THEN 1 ELSE 0,
                      !.seq0 = acc_seq, !.hist0 = hist_seq]

(* show_stats: get_stats, get_all_accounts, close; the except branch logs *)
show_stats(ok) ==
    /\ flow.pc \in {"idle", "done"}
    /\ flow' = ReadSession("show_stats", ok)
    /\ UNCHANGED store

(* menu choice 5: export_to_csv, close *)
export_option(ok) ==
    /\ flow.pc \in {"idle", "done"}
    /\ flow' = ReadSession("export", ok)
    /\ UNCHANGED store

(* show_dashboard: get_stats, get_all_accounts, close *)
show_dashboard(ok) ==
    /\ flow.pc \in {"idle", "done"}
    /\ flow' = ReadSession("show_dashboard", ok)
    /\ UNCHANGED store

(* complete_all_tasks(email) without a password: the manager is closed     *)
(* after the account was found, and not at all on "Account not found"      *)
complete_all_tasks_lookup(email) ==
    /\ flow.pc \in {"idle", "done"}
    /\ flow' = ReadSession("complete_all_tasks",
                           ~IsNone(get_account_by_email(email)))
    /\ UNCHANGED store

CreateAccountsStart == \E count \in 1..MaxBatch : create_accounts_start(count)

CreateAccountsStep == \E result \in SignupResults : create_accounts_step(result)

RunDailyTasksStart ==
    \E listing \in get_all_accounts : run_daily_tasks_start(listing)

RunDailyTasksStep ==
    \/ \E total_xp \in TotalXp : run_daily_tasks_step(TRUE, total_xp)
    \/ run_daily_tasks_step(FALSE, 0)

ShowStats == \E ok \in BOOLEAN : show_stats(ok)

ExportOption == \E ok \in BOOLEAN : export_option(ok)

ShowDashboard == \E ok \in BOOLEAN : show_dashboard(ok)

CompleteAllTasksLookup == \E email \in Emails : complete_all_tasks_lookup(email)

NextFlow ==
    \/ CreateAccountsStart
    \/ CreateAccountsStep
    \/ create_accounts_finish
    \/ RunDailyTasksStart
    \/ RunDailyTasksStep
    \/ run_daily_tasks_finish
    \/ ShowStats
    \/ ExportOption
    \/ ShowDashboard
    \/ CompleteAllTasksLookup

SpecFlow == Init /\ [][NextFlow]_vars

(* ---------------------------------------------------------------------- *)
(* Reporting and export: the remaining queries of AccountManager           *)
(* ---------------------------------------------------------------------- *)

(* SELECT * FROM accounts WHERE verified = 1 AND status = "active" *)
get_verified_accounts ==
    {r \in accounts : r.verified = Some(1) /\ r.status = "active"}

(* SELECT * FROM accounts: the WHERE clause left out *)
get_pending_or_not == accounts

(* SELECT * FROM accounts WHERE verified = 0 *)
get_pending_accounts == {r \in accounts : r.verified = Some(0)}

(* SELECT SUM(points): NULL over no rows *)
RECURSIVE AddPoints(_)
AddPoints(tbl) ==
    IF tbl = {} THEN 0
    ELSE LET r == CHOOSE q \in tbl : TRUE
         IN  r.points + AddPoints(tbl \ {r})

SumPoints(tbl) == IF tbl = {} THEN None ELSE Some(AddPoints(tbl))

(* cursor.fetchone()[0] or 0 *)
OrZero(v) == IF IsNone(v) THEN 0 ELSE Val(v)

(* a / b of Python: an exact ratio, or ZeroDivisionError *)
TrueDiv(a, b) ==
    IF b = 0 THEN [error |-> "ZeroDivisionError", num |-> 0, den |-> 1]
    ELSE [error |-> "", num |-> a, den |-> b]

Times(q, k) == [q EXCEPT !.num = @ * k]

(* verified_accounts / total_accounts * 100, the test on total left out *)
VerificationRateUnguarded(verified_accounts, total_accounts) ==
    Times(TrueDiv(verified_accounts, total_accounts), 100)

(* (verified_accounts / total_accounts * 100) if total_accounts > 0 else 0 *)
VerificationRate(verified_accounts, total_accounts) ==
    IF total_accounts > 0
        THEN Times(TrueDiv(verified_accounts, total_accounts), 100)
        ELSE [error |-> "", num |-> 0, den |-> 1]

(* SELECT referral_code, count of rows ... GROUP BY referral_code *)
ReferralGroups ==
    {[code |-> c, count |-> Cardinality({r \in accounts :
                                            r.referral_code = c})] :
        c \in {r.referral_code : r \in accounts}}

(* ORDER BY count DESC: every order the sort may return *)
RECURSIVE OrderByCountDesc(_)
OrderByCountDesc(groups) ==
    IF groups = {} THEN {<< >>}
    ELSE LET first == {g \in groups : \A h \in groups : h.count <= g.count}
         IN  UNION {{<<g>> \o rest :
                        rest \in OrderByCountDesc(groups \ {g})} :
                    g \in first}

(* get_stats, for one order of the referral groups *)
get_stats(referral_stats) ==
    [total_accounts    |-> Cardinality(accounts),
     verified_accounts |-> Cardinality({r \in accounts : r.verified = Some(1)}),
     pending_accounts  |-> Cardinality({r \in accounts : r.verified = Some(0)}),
     total_points      |-> OrZero(SumPoints(accounts)),
     verification_rate |->
         VerificationRate(Cardinality({r \in accounts : r.verified = Some(1)}),
                          Cardinality(accounts)),
     referral_stats    |-> referral_stats]

(* csv.DictWriter: None is written as the empty string, numbers by str() *)
CsvOpt(v) == IF IsNone(v) THEN "" ELSE Val(v)
CsvNum(n) == <<"str", n>>
CsvOptNum(v) == IF IsNone(v) THEN "" ELSE CsvNum(Val(v))

CsvRow(r) ==
    [id                |-> CsvNum(r.id),
     email             |-> r.email,
     password          |-> r.password,
     referral_code     |-> r.referral_code,
     created_at        |-> CsvNum(r.created_at),
     verified          |-> CsvOptNum(r.verified),
     verification_code |-> CsvOpt(r.verification_code),
     points            |-> CsvNum(r.points),
     last_task_run     |-> CsvOptNum(r.last_task_run),
     status            |-> r.status,
     cookies           |-> CsvOpt(r.cookies),
     notes             |-> CsvOpt(r.notes)]

(* the file export_to_csv writes: empty when there is no account *)
CsvFile(listing) ==
    IF listing = << >> THEN << >>
    ELSE <<"header">> \o [i \in 1..Len(listing) |-> CsvRow(listing[i])]

(* json.dump: an int becomes a number, a str a string, None null *)
JsonNum(n) == [json |-> "number", v |-> n]
JsonStr(x) == [json |-> "string", v |-> x]
JsonNull   == [json |-> "null"]
JsonOptNum(v) == IF IsNone(v) THEN JsonNull ELSE JsonNum(Val(v))
JsonOptStr(v) == IF IsNone(v) THEN JsonNull ELSE JsonStr(Val(v))

(* one dict(row) as a JSON object; sqlite3 returns the timestamps as text *)
JsonRow(r) ==
    [id                |-> JsonNum(r.id),
     email             |-> JsonStr(r.email),
     password          |-> JsonStr(r.password),
     referral_code     |-> JsonStr(r.referral_code),
     created_at        |-> JsonStr(r.created_at),
     verified          |-> JsonOptNum(r.verified),
     verification_code |-> JsonOptStr(r.verification_code),
     points            |-> JsonNum(r.points),
     last_task_run     |-> JsonOptStr(r.last_task_run),
     status            |-> JsonStr(r.status),
     cookies           |-> JsonOptStr(r.cookies),
     notes             |-> JsonOptStr(r.notes)]

(* the document export_to_json writes *)
JsonFile(listing, clock) ==
    [exported_at    |-> JsonStr(clock),
     total_accounts |-> JsonNum(Len(listing)),
     accounts       |-> [i \in 1..Len(listing) |-> JsonRow(listing[i])]]

(* json.load: null becomes None, a number an int, a string a str *)
JsonLoad(tok) == tok.v
JsonLoadOpt(tok) == IF tok.json = "null" THEN None ELSE Some(tok.v)

JsonLoadRow(j) ==
    [id                |-> JsonLoad(j.id),
     email             |-> JsonLoad(j.email),
     password          |-> JsonLoad(j.password),
     referral_code     |-> JsonLoad(j.referral_code),
     created_at        |-> JsonLoad(j.created_at),
     verified          |-> JsonLoadOpt(j.verified),
     verification_code |-> JsonLoadOpt(j.verification_code),
     points            |-> JsonLoad(j.points),
     last_task_run     |-> JsonLoadOpt(j.last_task_run),
     status            |-> JsonLoad(j.status),
     cookies           |-> JsonLoadOpt(j.cookies),
     notes             |-> JsonLoadOpt(j.notes)]

json_load(doc) ==
    [exported_at    |-> JsonLoad(doc.exported_at),
     total_accounts |-> JsonLoad(doc.total_accounts),
     accounts       |-> [i \in 1..Len(doc.accounts) |->
                            JsonLoadRow(doc.accounts[i])]]

ReadOps ==
    {"get_account_by_email", "get_all_accounts", "get_verified_accounts",
     "get_pending_accounts", "get_accounts_needing_tasks", "get_stats",
     "export_to_csv", "export_to_json"}

(* a SELECT that is followed by DELETE FROM task_history *)
ReadAndClear(op, email, out) ==
    /\ lastOp' = [op |-> op, email |-> email, ret |-> "ok",
                  existed |-> RowsOf(accounts, email) # {}, out |-> out]
    /\ task_history' = {}
    /\ UNCHANGED <<accounts, acc_seq, hist_seq, now, credited, flow>>
    /\ disk' = View'

(* A query: SELECT statements only, no commit; out is what it returns or   *)
(* writes to the export file                                               *)
Read(op, email, out) ==
    /\ lastOp' = [op |-> op, email |-> email, ret |-> "ok",
                  existed |-> RowsOf(accounts, email) # {}, out |-> out]
    /\ UNCHANGED <<accounts, task_history, acc_seq, hist_seq, now, credited,
                   disk, flow>>

GetAccountByEmail ==
    \E email \in Emails :
        Read("get_account_by_email", email, get_account_by_email(email))

GetAllAccounts ==
    \E listing \in get_all_accounts : Read("get_all_accounts", "", listing)

GetVerifiedAccounts ==
    Read("get_verified_accounts", "", get_verified_accounts)

GetPendingAccounts == Read("get_pending_accounts", "", get_pending_accounts)

GetAccountsNeedingTasks ==
    \E hours_since \in QueryHours :
        Read("get_accounts_needing_tasks", "",
             get_accounts_needing_tasks(hours_since))

GetStats ==
    \E referral_stats \in OrderByCountDesc(ReferralGroups) :
        Read("get_stats", "", get_stats(referral_stats))

ExportToCsv ==
    \E listing \in get_all_accounts :
        Read("export_to_csv", "", CsvFile(listing))

(* the listing taken with ORDER BY created_at ASC *)
ExportToJsonOldestFirst ==
    \E listing \in get_all_accounts_oldest_first :
        Read("export_to_json", "", JsonFile(listing, now))

ExportToJson ==
    \E listing \in get_all_accounts :
        Read("export_to_json", "", JsonFile(listing, now))

NextRead ==
    \/ AddAccount
    \/ UpdateAccountPoints
    \/ RecordTaskCompletion
    \/ DeleteAccount
    \/ GetAccountByEmail
    \/ GetAllAccounts
    \/ GetVerifiedAccounts
    \/ GetPendingAccounts
    \/ GetAccountsNeedingTasks
    \/ GetStats
    \/ ExportToCsv
    \/ ExportToJson

SpecRead == Init /\ [][NextRead]_vars

(* ---------------------------------------------------------------------- *)
(* add_account called with verified=None as well: the parameter is not     *)
(* type-checked and the column is nullable, so NULL is stored              *)
(* ---------------------------------------------------------------------- *)

NullableAccountArgs ==
    AccountArgs \cup
    { [password |-> Some("pw1"), referral_code |-> "REF1",
       verified |-> None, verification_code |-> None, cookies |-> None] }

AddAccountNullable ==
    /\ \E email \in Emails, a \in NullableAccountArgs :
           add_account(email, a.password, a.referral_code, a.verified,
                       a.verification_code, a.cookies)
    /\ UNCHANGED flow

NextNullable ==
    \/ AddAccountNullable
    \/ UpdateAccountPoints
    \/ DeleteAccount
    \/ GetVerifiedAccounts
    \/ GetPendingAccounts
    \/ GetStats

SpecNullable == Init /\ [][NextNullable]_vars

(* ---------------------------------------------------------------------- *)
(* Exports of a store whose accounts were created at different times       *)
(* ---------------------------------------------------------------------- *)

NextExport ==
    \/ AddAccountNullable
    \/ UpdateAccountPoints
    \/ DeleteAccount
    \/ ClockTick
    \/ ExportToCsv
    \/ ExportToJson

SpecExport == Init /\ [][NextExport]_vars

----------------------------------------------------------------------------
(* Properties of the store *)

RowOf(email) == Val(get_account_by_email(email))

(* C1: the points of an account never decrease across store operations     *)
(* (add_account, update_account_points with any delta,                     *)
(* record_task_completion) while the account is not deleted.               *)
C1_PointsNeverDecrease ==
    [][\A r \in accounts : \A q \in accounts' :
          q.email = r.email => q.points >= r.points]_vars

(* C1, as the store behaves: the points of an account decrease only when   *)
(* update_account_points is called with a negative delta (by that delta)   *)
(* or when add_account replaces the row of that email (back to 0); across  *)
(* every other call they stay or grow.                                     *)
C1_PointsDecreaseOnlyBy ==
    [][\A r \in accounts : \A q \in accounts' :
          (q.email = r.email /\ q.points < r.points) =>
             \/ /\ lastOp'.op = "add_account" /\ lastOp'.email = r.email
                /\ lastOp'.ret = "True"
                /\ q.id # r.id /\ q.points = 0
             \/ /\ lastOp'.op = "update_account_points"
                /\ lastOp'.email = r.email
                /\ q.id = r.id
                /\ credited'[r.email].sum - credited[r.email].sum
                      = q.points - r.points]_vars

C1_Witness ==
    \E r \in accounts :
        /\ lastOp.op = "record_task_completion" /\ lastOp.email = r.email
        /\ r.points >= 10

(* C2: add_account on an email that already has a row succeeds and leaves  *)
(* exactly one row for it, a new one: the listed columns hold the supplied *)
(* values and points, last_task_run, status and notes hold their schema    *)
(* defaults; omitted cookies / verification_code are NULL.                 *)
C2_UpsertReplacesWholeRow ==
    (lastOp.op = "add_account" /\ lastOp.existed /\ ~IsNone(lastOp.password))
    => /\ lastOp.ret = "True"
       /\ RowsOf(accounts, lastOp.email) =
            {[id                |-> acc_seq,
              email             |-> lastOp.email,
              password          |-> Val(lastOp.password),
              referral_code     |-> lastOp.referral_code,
              created_at        |-> RowOf(lastOp.email).created_at,
              verified          |-> AdaptBool(lastOp.verified),
              verification_code |-> lastOp.verification_code,
              points            |-> 0,
              last_task_run     |-> None,
              status            |-> "active",
              cookies           |-> lastOp.cookies,
              notes             |-> None]}

C2_Witness ==
    /\ lastOp.op = "add_account" /\ lastOp.existed /\ lastOp.ret = "True"
    /\ IsNone(lastOp.cookies)
    /\ \E r \in accounts : r.email = lastOp.email /\ r.created_at > 0

(* C3: there is at most one row of accounts per email, emails compared     *)
(* exactly.                                                                *)
C3_EmailUnique ==
    \A r \in accounts : \A q \in accounts : r.email = q.email => r = q

C3_Witness ==
    /\ acc_seq = 2
    /\ lastOp.op = "add_account" /\ lastOp.existed /\ lastOp.ret = "True"
    /\ Cardinality(RowsOf(accounts, lastOp.email)) = 1

(* C4: get_account_by_email right after a successful add_account returns   *)
(* the supplied values with the other columns at their defaults; for an    *)
(* email that was deleted or never inserted it returns None.               *)
C4_ReadBack ==
    /\ (lastOp.op = "add_account" /\ lastOp.ret = "True") =>
          /\ get_account_by_email(lastOp.email) # None
          /\ LET r == RowOf(lastOp.email) IN
                /\ r.email = lastOp.email
                /\ r.password = Val(lastOp.password)
                /\ r.referral_code = lastOp.referral_code
                /\ r.verified = AdaptBool(lastOp.verified)
                /\ r.verification_code = lastOp.verification_code
                /\ r.cookies = lastOp.cookies
                /\ r.points = 0
                /\ r.last_task_run = None
                /\ r.status = "active"
                /\ r.notes = None
    /\ lastOp.op = "delete_account" =>
          get_account_by_email(lastOp.email) = None

C4_AbsentUntilInserted ==
    \A e \in Emails :
        (get_account_by_email(e) = None /\ get_account_by_email(e)' # None)
        => (lastOp'.op = "add_account" /\ lastOp'.email = e
            /\ lastOp'.ret = "True")

(* C4: every email is absent at first and stays absent until an           *)
(* add_account of it succeeds; after a successful add_account, and after   *)
(* a delete_account, get_account_by_email returns what C4_ReadBack states. *)
C4_GetAfterUpsert ==
    /\ \A e \in Emails : get_account_by_email(e) = None
    /\ []C4_ReadBack
    /\ [][C4_AbsentUntilInserted]_vars

C4_Witness ==
    /\ lastOp.op = "add_account" /\ lastOp.ret = "True" /\ ~lastOp.existed
    /\ ~IsNone(lastOp.cookies)
    /\ Cardinality(accounts) = 2
    /\ RowOf(lastOp.email).cookies = lastOp.cookies

(* C5: created_at of an account is set when its row is first inserted and  *)
(* no later operation on that email changes it while the account exists.   *)
C5_CreatedAtSetOnce ==
    [][\A r \in accounts : \A q \in accounts' :
          q.email = r.email => q.created_at = r.created_at]_vars

(* C5, as the store behaves: created_at is the time of the call that       *)
(* inserted the row; it changes only when add_account replaces the row of  *)
(* that email, and then becomes the time of that call.                     *)
C5_CreatedAtChangesOnlyOnUpsert ==
    [][/\ \A q \in accounts' : q.id > acc_seq => q.created_at = now'
       /\ \A r \in accounts : \A q \in accounts' :
             (q.email = r.email /\ q.created_at # r.created_at) =>
                /\ lastOp'.op = "add_account" /\ lastOp'.email = r.email
                /\ lastOp'.ret = "True"
                /\ q.id # r.id]_vars

C5_Witness ==
    \E r \in accounts :
        /\ lastOp.op = "update_account_points" /\ lastOp.email = r.email
        /\ r.id = 2
        /\ r.created_at < now /\ r.last_task_run = Some(now)

(* C6: the points of an existing account equal the value at insertion plus *)
(* the sum of the deltas of the update_account_points calls made on it     *)
(* since, and last_task_run is the time of the last of these calls (unset  *)
(* if there was none): both columns change in the same step.               *)
C6_AccrueSum ==
    \A r \in accounts :
        /\ r.points = DefaultPoints + credited[r.email].sum
        /\ r.last_task_run = credited[r.email].last

C6_Witness ==
    \E r \in accounts :
        /\ lastOp.op = "update_account_points" /\ lastOp.email = r.email
        /\ r.points = 15
        /\ r.last_task_run = Some(now)
        /\ r.created_at < now

(* C7: delete_account leaves no row of accounts and no row of task_history *)
(* for the email, and the two deletions take effect in the same step.      *)
C7_AfterDelete ==
    lastOp.op = "delete_account" =>
        /\ RowsOf(accounts, lastOp.email) = {}
        /\ RowsOf(task_history, lastOp.email) = {}
        /\ get_account_by_email(lastOp.email) = None

C7_BothOrNeither ==
    \A e \in Emails :
        /\ (RowsOf(accounts, e) # {} /\ RowsOf(accounts', e) = {})
              => RowsOf(task_history', e) = {}
        /\ (\E h \in RowsOf(task_history, e) : h \notin task_history')
              => (RowsOf(accounts', e) = {} /\ RowsOf(task_history', e) = {})

(* C7: after delete_account neither table has a row of the email, and no  *)
(* step removes the account row without the history rows or vice versa.    *)
C7_DeleteCascades == []C7_AfterDelete /\ [][C7_BothOrNeither]_vars

C7_Witness ==
    /\ lastOp.op = "delete_account" /\ lastOp.existed
    /\ lastOp.history_removed >= 1
    /\ accounts # {}

(* C8: a row of task_history, once recorded, stays unchanged in every step *)
(* except a delete_account of its own email.                               *)
C8_HistoryAppendOnly ==
    [][\A h \in task_history :
          \/ h \in task_history'
          \/ (lastOp'.op = "delete_account" /\ lastOp'.email = h.email)]_vars

C8_Witness ==
    \E h \in task_history :
        /\ lastOp.op = "add_account" /\ lastOp.email = h.email
        /\ lastOp.existed /\ lastOp.ret = "True"
        /\ credited[h.email].sum = 0 /\ h.completed_at < now

(* C9: get_accounts_needing_tasks(h), h >= 0, returns exactly the verified *)
(* active accounts never run or last run more than h hours ago: with       *)
(* h = 20, one run 10 hours ago is left out, one run 21 hours ago or never *)
(* run is returned; unverified accounts are never returned.                *)
Age(r) == now - Val(r.last_task_run)

C9_DueForTasks ==
    /\ \A h \in QueryHours :
          get_accounts_needing_tasks(h) =
             {r \in accounts : /\ r.verified = Some(1)
                               /\ r.status = "active"
                               /\ (IsNone(r.last_task_run) \/ Age(r) > h)}
    /\ \A r \in accounts :
          /\ r.verified # Some(1) =>
                \A h \in QueryHours : r \notin get_accounts_needing_tasks(h)
          /\ (r.verified = Some(1) /\ r.status = "active") =>
                /\ IsNone(r.last_task_run) =>
                      r \in get_accounts_needing_tasks(20)
                /\ (~IsNone(r.last_task_run) /\ Age(r) = 21) =>
                      r \in get_accounts_needing_tasks(20)
                /\ (~IsNone(r.last_task_run) /\ Age(r) = 10) =>
                      r \notin get_accounts_needing_tasks(20)
                /\ (~IsNone(r.last_task_run) /\ Age(r) = 20) =>
                      r \notin get_accounts_needing_tasks(20)

C9_Witness ==
    /\ now = 21
    /\ \E r \in accounts :
          /\ r.verified = Some(1) /\ r.last_task_run = Some(0)
          /\ r \in get_accounts_needing_tasks(20)
          /\ r \notin get_accounts_needing_tasks(21)
    /\ \E q \in accounts :
          /\ q.verified = Some(0) /\ q \notin get_accounts_needing_tasks(0)

(* C10: update_account_points for an email without a row raises nothing    *)
(* and leaves accounts and task_history as they were.                      *)
C10_AccrueMissingNoOp ==
    [][\A e \in Emails :
          (lastOp'.op = "update_account_points" /\ lastOp'.email = e
           /\ RowsOf(accounts, e) = {})
          => (accounts' = accounts /\ task_history' = task_history
              /\ lastOp'.ret = "ok")]_vars

C10_Witness ==
    /\ lastOp.op = "update_account_points" /\ ~lastOp.existed
    /\ lastOp.ret = "ok"
    /\ accounts # {} /\ task_history # {}
    /\ RowsOf(accounts, lastOp.email) = {}


(* ---------------------------------------------------------------------- *)
(* C11: when the storage layer raises during add_account, the call returns *)
(* False and the stored accounts and task history are exactly what they    *)
(* were before the call, both as this connection reads them and as         *)
(* committed.                                                              *)
(* ---------------------------------------------------------------------- *)
C11_FailedUpsertLeavesStoreAlone ==
    [][(lastOp'.op = "add_account" /\ lastOp'.ret = "False")
        => /\ accounts' = accounts
           /\ task_history' = task_history
           /\ disk'.accounts = disk.accounts
           /\ disk'.task_history = disk.task_history]_vars

(* ---------------------------------------------------------------------- *)
(* C12: whenever a mutating operation has returned normally, its change is *)
(* committed: the connection holds no change that the file does not.       *)
(* ---------------------------------------------------------------------- *)
C12_NothingPending ==
    /\ disk.accounts = accounts
    /\ disk.task_history = task_history

(* ---------------------------------------------------------------------- *)
(* C13: every store a session opened is closed exactly once by the time    *)
(* the session has ended, whichever way it ended: a session that is over   *)
(* (and save_account, which is over within its loop pass) has closed as    *)
(* many stores as it opened.                                               *)
(* ---------------------------------------------------------------------- *)
C13_ClosedOncePerSession ==
    (flow.pc = "done" \/ flow.kind = "create_accounts")
        => flow.closed = flow.opened

(* ---------------------------------------------------------------------- *)
(* C14: every account run_daily_tasks runs the tasks for, or credits, is   *)
(* verified, active and due for tasks.                                     *)
(* ---------------------------------------------------------------------- *)
C14_TargetsVerifiedActiveDue ==
    \A p \in flow.processed :
        /\ p.verified = Some(1)
        /\ p.status = "active"
        /\ p.due

(* ---------------------------------------------------------------------- *)
(* C15: whenever run_daily_tasks has credited points to an account, a      *)
(* task-history entry for that email was appended during the same run.     *)
(* ---------------------------------------------------------------------- *)
C15_CreditComesWithHistory ==
    \A p \in flow.processed :
        p.credit => \E h \in task_history :
                        /\ h.email = p.email
                        /\ h.id > flow.hist0

(* ---------------------------------------------------------------------- *)
(* C16: in create_accounts, a loop pass whose signup succeeded calls       *)
(* add_account exactly once, with that attempt's email, password, the      *)
(* referral code and the verification outcome; a pass whose signup failed  *)
(* or raised makes no call and leaves the store alone.  So the number of   *)
(* rows inserted since the loop began is the number of successful signups. *)
(* ---------------------------------------------------------------------- *)
C16_SavedAsSignedUp(r) ==
    /\ acc_seq' = acc_seq + 1
    /\ lastOp' = [op |-> "add_account", email |-> r.email, ret |-> "True",
                  existed |-> RowsOf(accounts, r.email) # {},
                  password |-> r.password,
                  referral_code |-> ConfigReferralCode,
                  verified |-> r.verified,
                  verification_code |-> r.verification_code,
                  cookies |-> None]
    /\ \E row \in accounts' :
          /\ row.id = acc_seq'
          /\ row.email = r.email
          /\ Some(row.password) = r.password
          /\ row.referral_code = ConfigReferralCode
          /\ row.verified = AdaptBool(r.verified)
          /\ row.verification_code = r.verification_code

C16_UpsertOncePerSuccessfulSignup ==
    /\ [](flow.kind = "create_accounts"
            => acc_seq - flow.seq0 = flow.successes)
    /\ [][(/\ flow.kind = "create_accounts"
           /\ flow'.kind = "create_accounts"
           /\ flow'.left = flow.left - 1)
          => IF Val(flow'.result).success
                THEN C16_SavedAsSignedUp(Val(flow'.result))
                ELSE UNCHANGED store]_vars

C16_Witness ==
    /\ flow.kind = "create_accounts"
    /\ flow.pc = "done"
    /\ flow.successes = 1
    /\ flow.opened = 1
    /\ ~Val(flow.result).success
    /\ lastOp.op = "add_account"
    /\ lastOp.ret = "True"
    /\ lastOp.verified = Some(TRUE)

(* ---------------------------------------------------------------------- *)
(* C17: record_task_completion adds exactly one task-history entry, for    *)
(* the email it was given, whether or not that email has an account, and   *)
(* leaves every account row as it was (no account is created, no points    *)
(* or last_task_run change).                                               *)
(* ---------------------------------------------------------------------- *)
C17_RecordAppendsOneEntryOnly ==
    [][(lastOp'.op = "record_task_completion" /\ hist_seq' # hist_seq)
        => /\ accounts' = accounts
           /\ task_history \subseteq task_history'
           /\ Cardinality(task_history' \ task_history) = 1
           /\ \A h \in task_history' \ task_history :
                 /\ h.email = lastOp'.email
                 /\ h.id = hist_seq']_vars

C17_Witness ==
    /\ lastOp.op = "record_task_completion"
    /\ ~lastOp.existed
    /\ accounts # {}
    /\ RowsOf(accounts, lastOp.email) = {}
    /\ \E h \in task_history : h.id = hist_seq /\ h.email = lastOp.email

(* ---------------------------------------------------------------------- *)
(* C18: a call of get_account_by_email, get_all_accounts,                  *)
(* get_verified_accounts, get_pending_accounts, get_accounts_needing_tasks,*)
(* get_stats, export_to_csv or export_to_json leaves every account row and *)
(* every task-history entry as it was, on the connection and in the file.  *)
(* ---------------------------------------------------------------------- *)
C18_ReadsChangeNothing ==
    [][lastOp'.op \in ReadOps
        => /\ accounts' = accounts
           /\ task_history' = task_history
           /\ disk' = disk]_vars

C18_Witness ==
    /\ lastOp.op = "export_to_json"
    /\ lastOp.out.total_accounts = JsonNum(2)
    /\ task_history # {}
    /\ \E r \in accounts : r.points > 0

(* ---------------------------------------------------------------------- *)
(* C19: get_stats never divides by zero: verification_rate is              *)
(* verified / total * 100 when total > 0 and 0 when total = 0, and on an   *)
(* empty store total, verified, pending and total_points are all 0.        *)
(* ---------------------------------------------------------------------- *)
C19_StatsWithoutDivisionByZero ==
    \A referral_stats \in OrderByCountDesc(ReferralGroups) :
        LET stats == get_stats(referral_stats)
            rate  == stats.verification_rate
        IN  /\ rate.error = ""
            /\ stats.total_accounts = Cardinality(accounts)
            /\ stats.total_accounts > 0
                  => /\ rate.den # 0
                     /\ rate.num * stats.total_accounts
                            = stats.verified_accounts * 100 * rate.den
            /\ stats.total_accounts = 0 => rate.num = 0
            /\ accounts = {}
                  => /\ stats.total_accounts = 0
                     /\ stats.verified_accounts = 0
                     /\ stats.pending_accounts = 0
                     /\ stats.total_points = 0

C19_Witness ==
    /\ accounts = {}
    /\ acc_seq > 0
    /\ lastOp.op = "delete_account"
    /\ lastOp.existed
    /\ \A referral_stats \in OrderByCountDesc(ReferralGroups) :
          get_stats(referral_stats).verification_rate
              = [error |-> "", num |-> 0, den |-> 1]

(* ---------------------------------------------------------------------- *)
(* C20: get_all_accounts returns every stored account exactly once, the    *)
(* newest created_at first: created_at never increases along the list.     *)
(* ---------------------------------------------------------------------- *)
C20_ListingNewestFirst ==
    /\ get_all_accounts # {}
    /\ \A listing \in get_all_accounts :
          /\ Len(listing) = Cardinality(accounts)
          /\ {listing[i] : i \in 1..Len(listing)} = accounts
          /\ \A i \in 1..Len(listing) - 1 :
                listing[i].created_at >= listing[i + 1].created_at

C20_Witness ==
    /\ Cardinality(accounts) = 2
    /\ \E r, q \in accounts : r.created_at < q.created_at
    /\ \E listing \in get_all_accounts :
          listing[1].created_at > listing[2].created_at

(* ---------------------------------------------------------------------- *)
(* C21: get_verified_accounts returns exactly the accounts stored as       *)
(* verified and active, get_pending_accounts exactly those stored as not   *)
(* verified, and no account is in both.  An account is stored as verified  *)
(* exactly when add_account was given verified=True, and as not verified   *)
(* exactly when it was given verified=False.                               *)
(* ---------------------------------------------------------------------- *)
C21_Lists ==
    /\ get_verified_accounts \cap get_pending_accounts = {}
    /\ get_verified_accounts \subseteq accounts
    /\ get_pending_accounts \subseteq accounts
    /\ \A r \in accounts :
          /\ r \in get_verified_accounts
                <=> (r.verified = Some(1) /\ r.status = "active")
          /\ r \in get_pending_accounts <=> r.verified = Some(0)

C21_VerifiedAndPendingLists ==
    /\ []C21_Lists
    /\ [][acc_seq' # acc_seq
          => \A r \in accounts' :
                r.id = acc_seq'
                   => /\ r \in get_verified_accounts'
                         <=> lastOp'.verified = Some(TRUE)
                      /\ r \in get_pending_accounts'
                         <=> lastOp'.verified = Some(FALSE)]_vars

C21_Witness ==
    /\ get_verified_accounts # {}
    /\ get_pending_accounts # {}
    /\ lastOp.op = "get_pending_accounts"
    /\ lastOp.out = get_pending_accounts

(* ---------------------------------------------------------------------- *)
(* C23: in every reachable state get_stats reports                         *)
(* total_accounts = verified_accounts + pending_accounts, whatever value   *)
(* of verified add_account was given.                                      *)
(* ---------------------------------------------------------------------- *)
C23_TotalIsVerifiedPlusPending ==
    \A referral_stats \in OrderByCountDesc(ReferralGroups) :
        LET stats == get_stats(referral_stats)
        IN  stats.total_accounts
                = stats.verified_accounts + stats.pending_accounts

(* ---------------------------------------------------------------------- *)
(* C22: parsing the document export_to_json wrote gives total_accounts     *)
(* equal to the number of stored accounts and an accounts list that is a   *)
(* listing get_all_accounts returns for the store at export time: the same *)
(* records with the same field values, newest created_at first.            *)
(* ---------------------------------------------------------------------- *)
C22_JsonRoundTrip ==
    lastOp.op = "export_to_json"
        => LET doc == json_load(lastOp.out)
           IN  /\ doc.total_accounts = Cardinality(accounts)
               /\ doc.total_accounts = Len(doc.accounts)
               /\ doc.accounts \in get_all_accounts
               /\ {doc.accounts[i] : i \in 1..Len(doc.accounts)} = accounts

C22_Witness ==
    /\ lastOp.op = "export_to_json"
    /\ Len(lastOp.out.accounts) = 2
    /\ json_load(lastOp.out).accounts[1].created_at
           > json_load(lastOp.out).accounts[2].created_at
    /\ \E r \in accounts : IsNone(r.verified) /\ IsNone(r.last_task_run)
    /\ \E r \in accounts : r.points > 0 /\ ~IsNone(r.last_task_run)

(* ---------------------------------------------------------------------- *)
(* C24: an account whose last_task_run is unset has points = 0.  A row     *)
(* add_account writes has points 0 and last_task_run unset, and a points   *)
(* update stamps last_task_run of the row it changes in the same step.     *)
(* ---------------------------------------------------------------------- *)
C24_NeverRunHasNoPoints ==
    /\ [](\A r \in accounts : IsNone(r.last_task_run) => r.points = 0)
    /\ [][/\ acc_seq' # acc_seq
             => \A r \in accounts' :
                   r.id = acc_seq'
                      => r.points = 0 /\ IsNone(r.last_task_run)
          /\ \A r \in accounts, q \in accounts' :
                (q.id = r.id /\ q.points # r.points)
                   => q.last_task_run = Some(now)]_vars

C24_Witness ==
    /\ lastOp.op = "add_account"
    /\ lastOp.existed
    /\ lastOp.ret = "True"
    /\ credited[lastOp.email] = NoCredit
    /\ \E r \in accounts :
          /\ r.email = lastOp.email
          /\ r.points = 0
          /\ IsNone(r.last_task_run)
          /\ r.id > 1
          /\ r.created_at > 0

(* ---------------------------------------------------------------------- *)
(* C25: no operation of the store sets status or notes: every account has  *)
(* status 'active' and notes unset, so get_verified_accounts returns       *)
(* exactly the accounts stored as verified.                                *)
(* ---------------------------------------------------------------------- *)
C25_StatusAndNotesStayDefault ==
    /\ \A r \in accounts : r.status = "active" /\ IsNone(r.notes)
    /\ get_verified_accounts = {r \in accounts : r.verified = Some(1)}

C25_Witness ==
    /\ lastOp.op = "delete_account"
    /\ lastOp.existed
    /\ \E r \in get_verified_accounts :
          r.points > 0 /\ r.id > 1 /\ r.created_at > 0

(* ---------------------------------------------------------------------- *)
(* C26: an operation called for one email leaves the account rows and the  *)
(* task-history entries of every other email as they were.                 *)
(* ---------------------------------------------------------------------- *)
C26_OtherEmailsUntouched ==
    [][\A e \in Emails :
          e # lastOp'.email
             => /\ RowsOf(accounts', e) = RowsOf(accounts, e)
                /\ RowsOf(task_history', e) = RowsOf(task_history, e)]_vars

C26_Witness ==
    /\ lastOp.op = "delete_account"
    /\ lastOp.existed
    /\ lastOp.history_removed = 1
    /\ \E r \in accounts : r.email # lastOp.email /\ r.points > 0
====
